---- MODULE Spec2Model ----
(***************************************************************************)
(* Model of the devotional app (src/index.tsx): the daily-content cache of *)
(* generateDevotional and the audio session it tears down.                 *)
(*                                                                         *)
(* JavaScript runs one handler at a time; an async function runs without   *)
(* interruption up to its next await.  Every action below is therefore one *)
(* such uninterrupted stretch: the part of generateDevotional before the   *)
(* await of the generator call is one action, the continuation after the   *)
(* call settled is another.                                                *)
(*                                                                         *)
(* The key-value store is taken as total (getItem, setItem and removeItem  *)
(* do not throw) and the construction of the API client succeeds.  The     *)
(* note text (userNote), the diary (notes-list view), the font size and    *)
(* the install banner are presentation state no modelled operation reads;  *)
(* they are left out.                                                      *)
(*                                                                         *)
(* The audio session (handlePlayAudio, stopAudio, the onended callback) is *)
(* modelled with the Web Audio objects it creates: every successful        *)
(* request creates one AudioContext and one source node, both named by the *)
(* number of the request.  A source that stops playing, by itself or by    *)
(* stop(), has an ended event queued; whether the event of a source        *)
(* stopped by stop() is still delivered once its context is closed is left *)
(* open (both outcomes are modelled).                                      *)
(*                                                                         *)
(* The service worker (src/unnamed/part_000) is modelled with the cache    *)
(* storage it works on: the generations that exist and their entries.  A   *)
(* handler step runs from the event, or from the network response, through *)
(* the cache operations it chains; cache operations do not fail.           *)
(***************************************************************************)
EXTENDS Integers, FiniteSets, Sequences, TLC

\* ---- bounds ------------------------------------------------------------
MaxReq == 3          \* content requests issued in one run
MaxNow == 2          \* last clock tick of a run
TicksPerDay == 2     \* clock ticks in one local calendar day
MaxAudio == 2        \* audio generator calls made in one run
MaxAudioReq == 2     \* content requests issued in a run with audio
MaxFetch == 3        \* fetch events the service worker handles in one run
MaxBytes == 32       \* longest byte buffer given to decodeAudioData
MaxChannels == 2     \* largest channel count given to decodeAudioData

\* ---- values ------------------------------------------------------------
Null == "<null>"                 \* JavaScript null / undefined
Absent == "<absent>"             \* getItem result for a key with no entry
NoNode == 0                      \* a ref that holds no node; nodes count from 1
Topics == {"Ansiedade"}          \* one of the twelve entries of topics
DailyLabel == "Devocional do Dia"

\* Texts the generator may return: "" is the empty (falsy) string,
\* "{not json" is not JSON, " {A} " is record A as the generator spells it
\* ("{A}" is the spelling JSON.stringify gives it), "{B}" is record B.
GenTexts == {"", "{not json", " {A} ", "{B}"}
Fallback == "FALLBACK"           \* the hardcoded record of the catch block
Contents == {Null, "A", "B", Fallback}

Days == 0 .. (MaxNow \div TicksPerDay)

\* new Date().toLocaleDateString('pt-BR'): the local calendar day of a tick
toLocaleDateString(t) == t \div TicksPerDay

\* `daily_devotional_${todayDate}`
cacheKeyNoDate(t) == toLocaleDateString(0)
cacheKey(t) == toLocaleDateString(t)

\* if (cachedData), if (text): a string is truthy unless it is empty; null
\* and undefined are falsy
Truthy(s) == s # Absent /\ s # Null /\ s # ""

\* JSON.parse: throws on text that is not JSON
JSONparse(s) ==
  CASE s \in {"{A}", " {A} "} -> [threw |-> FALSE, val |-> "A"]
    [] s = "{B}"              -> [threw |-> FALSE, val |-> "B"]
    [] s = "{F}"              -> [threw |-> FALSE, val |-> Fallback]
    [] OTHER                  -> [threw |-> TRUE,  val |-> Null]

\* JSON.stringify of a record: its canonical spelling
toStringOfRecord(v) == "[object Object]"
JSONstringify(v) ==
  CASE v = "A"      -> "{A}"
    [] v = "B"      -> "{B}"
    [] v = Fallback -> "{F}"
    [] OTHER        -> "null"

\* if (!topic): the request is the daily one
isDailyAlways(topic) == TRUE
isDaily(topic) == topic = Null

\* the early return of generateDevotional: a daily request whose entry is
\* there and parses
returnsCachedNever(topic, cachedData) == FALSE
returnsCached(topic, cachedData) ==
  isDaily(topic) /\ Truthy(cachedData) /\ ~JSONparse(cachedData).threw

\* the catch block of the lookup: an entry that is there and does not parse
removesCached(topic, cachedData) ==
  isDaily(topic) /\ Truthy(cachedData) /\ JSONparse(cachedData).threw

\* if (!topic) before localStorage.setItem: only the daily record is stored
storesResultAlways(topic) == TRUE
storesResultNever(topic) == FALSE
storesResult(topic) == isDaily(topic)

\* the catch block of the generation: the content it sets, whatever the
\* content was
keepsContent(prev) == prev
catchContent(prev) == Fallback

\* ---- audio helpers ------------------------------------------------------
\* What the audio generator may return as inlineData.data: a text of
\* chars characters, the last pad of them padding, all of the base64
\* alphabet or not.  No data and the empty text are the same falsy value.
AudioPayloads == {[chars |-> 0, pad |-> 0, legal |-> TRUE],
                  [chars |-> 4, pad |-> 0, legal |-> FALSE],
                  [chars |-> 4, pad |-> 0, legal |-> TRUE],
                  [chars |-> 8, pad |-> 2, legal |-> TRUE]}

\* if (base64Audio)
hasAudio(p) == p.chars > 0

\* base64ToUint8Array: atob throws on an illegal character; otherwise every
\* four characters give three bytes, less the padding
base64ToUint8Array(p) ==
  IF p.legal THEN [threw |-> FALSE, len |-> (p.chars \div 4) * 3 - p.pad]
  ELSE [threw |-> TRUE, len |-> 0]

\* decodeAudioData(data, ctx, sampleRate, numChannels): new Int16Array over
\* the buffer throws unless the byte length is even; frameCount is the
\* sample count over numChannels, which createBuffer truncates to an
\* integer and rejects when it is 0
decodeAudioData(len, numChannels) ==
  IF len % 2 # 0 THEN [threw |-> TRUE, frames |-> 0]
  ELSE IF (len \div 2) \div numChannels = 0
       THEN [threw |-> TRUE, frames |-> 0]
       ELSE [threw |-> FALSE, frames |-> (len \div 2) \div numChannels]

\* the channel count handlePlayAudio passes to decodeAudioData
NumChannels == 1

\* ---- service worker ----------------------------------------------------
CACHE_NAME == "devocional-v8"
PRECACHE_URLS == {"/", "/index.html", "/index.tsx"}
OldNames == {"devocional-v6", "devocional-v7"}  \* names of earlier versions
CacheNames == {CACHE_NAME} \cup OldNames

\* The requests of a run: the manifest, one more asset of the application,
\* one module of an external host and one file of another host whose name
\* begins like that host's.
Requests == PRECACHE_URLS \cup {"/icon.png", "https://esm.sh/react",
                                "https://esm.sh.example.net/lib"}
FetchRequests == {"/", "/icon.png", "https://esm.sh/react",
                  "https://esm.sh.example.net/lib"}
NoEntry == "<no entry>"          \* cache.match found nothing (undefined)
Pending == "<pending>"           \* respondWith not settled yet
NetworkError == "<network error>"
NetResponses == {"r1", "r2"}     \* responses the network may give
NotFound == "404"                \* a response whose ok is false
ManifestOutcomes == {"r1", NotFound, NetworkError}
EmptyCache == [q \in Requests |-> NoEntry]

\* new URL(event.request.url).origin
originOf(url) ==
  IF url = "https://esm.sh/react" THEN "https://esm.sh"
  ELSE IF url = "https://esm.sh.example.net/lib"
       THEN "https://esm.sh.example.net"
       ELSE "https://app.example"

\* origin.includes(part), for the four parts the fetch listener asks about
\* (a substring test)
includes(origin, part) ==
  /\ origin \in {"https://esm.sh", "https://esm.sh.example.net"}
  /\ part = "esm.sh"

\* the condition of the stale-while-revalidate branch
allowListedNever(url) == FALSE
allowListed(url) ==
  \/ includes(originOf(url), "esm.sh")
  \/ includes(originOf(url), "cdn.tailwindcss.com")
  \/ includes(originOf(url), "fonts.googleapis.com")
  \/ includes(originOf(url), "fonts.gstatic.com")

\* cacheWhitelist.indexOf(cacheName) === -1
deletesAll(cacheName) == TRUE
notWhitelisted(cacheName) == cacheName \notin {CACHE_NAME}

\* cache.put(event.request, networkResponse.clone()): the entry afterwards
putSkipped(old, networkResponse) == old
putEntry(old, networkResponse) == networkResponse

\* return response || fetchPromise: what respondWith has when the match
\* resolved
answersFromNetwork(response) == Pending
cachedOrFetch(response) == IF response # NoEntry THEN response ELSE Pending

VARIABLES
  now,            \* the clock
  store,          \* localStorage, daily_devotional_* keys: day -> text
  view,           \* useState view
  content,        \* useState content
  isLoading,      \* useState isLoading
  currentTopic,   \* useState currentTopic
  inflight,       \* generator calls awaited by a generateDevotional
  isAudioLoading, \* useState isAudioLoading
  isPlaying,      \* useState isPlaying
  audioContextRef,\* useRef: the held AudioContext, or NoNode
  audioSourceRef, \* useRef: the held source node, or NoNode
  openContexts,   \* AudioContexts created and not closed
  playing,        \* source nodes started and still playing
  endedQueue,     \* source nodes whose ended event waits for delivery
  audioInflight,  \* audio generator calls awaited by a handlePlayAudio
  naudio,         \* history: audio generator calls made
  natural,        \* history: source nodes that played to their end
  swState,        \* life cycle of the service worker
  cacheNames,     \* CacheStorage: the generations that exist
  entries,        \* CacheStorage: generation -> request -> response
  toDelete,       \* activate: generations whose delete is still to run
  netInflight,    \* network requests awaited by a fetch handler
  answers,        \* fetch event -> what respondWith gave the requester
  nfetch,         \* history: fetch events handled
  deletedNames,   \* history: generations deleted
  decodeCall,     \* a call of decodeAudioData: its arguments and outcome
  nreq,           \* history: content requests issued
  genCalls,       \* history: generator calls of daily requests, by dayKey
  genStored,      \* history: daily generations stored, by dayKey looked up
  shown,          \* history: by dayKey looked up, what daily requests ended
                  \*   up showing: <<"served", c>> when c came from the
                  \*   store or from a generation that was stored,
                  \*   <<"failed", c>> otherwise
  ev              \* history: how the last handler ended

devVars == <<now, store, view, content, isLoading, currentTopic, inflight>>
audioVars == <<isAudioLoading, isPlaying, audioContextRef, audioSourceRef,
               openContexts, playing, endedQueue, audioInflight, naudio,
               natural>>
histVars == <<nreq, genCalls, genStored, shown, ev>>
swVars == <<swState, cacheNames, entries, toDelete, netInflight, answers,
            nfetch, deletedNames>>
vars == <<devVars, audioVars, histVars, swVars, decodeCall>>

\* ev: op is "resolved" or "rejected" after a continuation of
\* generateDevotional, "stop" after the back button, "play" after a click
\* on the audio button, "audio" after a continuation of handlePlayAudio,
\* "onended" after the completion callback and "none" after any other
\* handler; text is the response text of a resolved call, error tells
\* whether an exception left the handler, src is the request or source the
\* audio handler belongs to, alert tells whether the handler showed the
\* error notice.
NoEv == [op |-> "none", text |-> Null, error |-> FALSE, src |-> 0,
         alert |-> FALSE]

\* What a run may find under today's key: nothing, a record stored by an
\* earlier run, or persisted data that was damaged (not JSON, or emptied).
InitEntries == {Absent, "{A}", "{not json", ""}

\* the service worker before its install event, on a cache storage that
\* holds nothing
InitWorker ==
  /\ swState = "parsed"
  /\ cacheNames = {}
  /\ entries = [n \in CacheNames |-> EmptyCache]
  /\ toDelete = {}
  /\ netInflight = {}
  /\ answers = [i \in 1 .. MaxFetch |-> Pending]
  /\ nfetch = 0
  /\ deletedNames = {}

InitApp ==
  /\ now = 0
  /\ \E e \in InitEntries :
       store = [d \in Days |-> IF d = cacheKey(0) THEN e ELSE Absent]
  /\ view = "home"
  /\ content = Null
  /\ isLoading = FALSE
  /\ currentTopic = ""
  /\ inflight = {}
  /\ isAudioLoading = FALSE
  /\ isPlaying = FALSE
  /\ audioContextRef = NoNode
  /\ audioSourceRef = NoNode
  /\ openContexts = {}
  /\ playing = {}
  /\ endedQueue = {}
  /\ audioInflight = {}
  /\ naudio = 0
  /\ natural = {}
  /\ nreq = 0
  /\ genCalls = [d \in Days |-> 0]
  /\ genStored = [d \in Days |-> 0]
  /\ shown = [d \in Days |-> {}]
  /\ ev = NoEv

\* no call of decodeAudioData made outside handlePlayAudio
NoDecodeCall ==
  [data |-> 0, numChannels |-> NumChannels, done |-> FALSE,
   threw |-> FALSE, frames |-> 0]

Init == InitApp /\ InitWorker /\ decodeCall = NoDecodeCall

\* stopAudio as a function of the audio state st (the two refs, the two
\* flags, the open contexts and the playing sources): the held source is
\* stopped (stop() is in a try block, its exception is swallowed) and disconnected, the held
\* context is closed, which silences its source, both refs and both flags
\* are cleared.  raised tells whether an exception left stopAudio.
stopAudioKeepsContext(st) ==
  [src |-> NoNode, ctx |-> st.ctx, open |-> st.open,
   playing |-> st.playing \ {st.src},
   isPlaying |-> FALSE, isAudioLoading |-> FALSE, raised |-> FALSE]
stopAudioResult(st) ==
  [src |-> NoNode, ctx |-> NoNode, open |-> st.open \ {st.ctx},
   playing |-> st.playing \ {st.src, st.ctx},
   isPlaying |-> FALSE, isAudioLoading |-> FALSE, raised |-> FALSE]

\* the audio state stopAudio acts on
audioState ==
  [src |-> audioSourceRef, ctx |-> audioContextRef, open |-> openContexts,
   playing |-> playing, isPlaying |-> isPlaying,
   isAudioLoading |-> isAudioLoading, raised |-> FALSE]

\* stopAudio, called with the ended events in queue: releases the source
\* and the context, clears both flags.  The sources it silences have their
\* ended event queued, or lost with the closed context.  The awaited
\* generator calls are not cancelled; stopped records that stopAudio ran
\* while they were awaited.
stopAudioWith(queue) ==
  LET st == stopAudioResult(audioState)
  IN /\ audioSourceRef' = st.src
     /\ audioContextRef' = st.ctx
     /\ openContexts' = st.open
     /\ playing' = st.playing
     /\ isPlaying' = st.isPlaying
     /\ isAudioLoading' = st.isAudioLoading
     /\ \E fired \in SUBSET (playing \ st.playing) :
          endedQueue' = queue \cup fired
     /\ audioInflight' = {[a EXCEPT !.stopped = TRUE] : a \in audioInflight}
     /\ naudio' = naudio
     /\ natural' = natural

stopAudio == stopAudioWith(endedQueue)

\* generateDevotional(topic), from the call to the first await (or to the
\* early return of a cache hit).  The daily button is on the home view, the
\* topic buttons are on the topics view.
generateDevotional(topic) ==
  /\ UNCHANGED <<swVars, decodeCall>>
  /\ nreq < MaxReq
  /\ \/ topic = Null /\ view = "home"
     \/ topic \in Topics /\ view = "topics"
  /\ stopAudio
  /\ nreq' = nreq + 1
  /\ ev' = NoEv
  /\ LET key == cacheKey(now)
         cachedData == IF isDaily(topic) THEN store[key] ELSE Absent
     IN IF returnsCached(topic, cachedData)
        THEN /\ content' = JSONparse(cachedData).val
             /\ currentTopic' = DailyLabel
             /\ view' = "reading"
             /\ shown' = [shown EXCEPT ![key] = @ \cup {<<"served", content'>>}]
             /\ UNCHANGED <<now, store, isLoading, inflight, genCalls,
                            genStored>>
        ELSE /\ store' = IF removesCached(topic, cachedData)
                         THEN [store EXCEPT ![key] = Absent]
                         ELSE store
             /\ isLoading' = TRUE
             /\ currentTopic' = IF topic = Null THEN DailyLabel ELSE topic
             /\ view' = "reading"
             /\ inflight' = inflight \cup
                              {[id |-> nreq + 1, topic |-> topic, key |-> key,
                                cachedData |-> cachedData]}
             /\ genCalls' = IF topic = Null
                            THEN [genCalls EXCEPT ![key] = @ + 1]
                            ELSE genCalls
             /\ UNCHANGED <<now, content, genStored, shown>>

\* the generator call of request r resolved with response.text = text:
\* the rest of the try block, the catch block if JSON.parse throws, finally
generateResolved(r, text) ==
  /\ UNCHANGED <<swVars, decodeCall>>
  /\ r \in inflight
  /\ text \in GenTexts
  /\ inflight' = inflight \ {r}
  /\ LET data == JSONparse(text)
         stores == Truthy(text) /\ ~data.threw /\ storesResult(r.topic)
     IN /\ content' = IF ~Truthy(text) THEN content
                      ELSE IF data.threw THEN catchContent(content)
                      ELSE data.val
        /\ store' = IF stores
                    THEN [store EXCEPT
                            ![cacheKey(now)] = JSONstringify(data.val)]
                    ELSE store
        /\ genStored' = IF stores /\ r.topic = Null
                        THEN [genStored EXCEPT ![r.key] = @ + 1]
                        ELSE genStored
        /\ shown' = IF r.topic # Null THEN shown
                    ELSE [shown EXCEPT ![r.key] = @ \cup
                            {<<IF stores THEN "served" ELSE "failed",
                               content'>>}]
  /\ isLoading' = FALSE
  /\ ev' = [NoEv EXCEPT !.op = "resolved", !.text = text]
  /\ UNCHANGED <<now, view, currentTopic, audioVars, nreq, genCalls>>

\* the generator call of request r rejected: catch block, finally
generateRejected(r) ==
  /\ UNCHANGED <<swVars, decodeCall>>
  /\ r \in inflight
  /\ inflight' = inflight \ {r}
  /\ content' = catchContent(content)
  /\ shown' = IF r.topic # Null THEN shown
              ELSE [shown EXCEPT ![r.key] = @ \cup {<<"failed", content'>>}]
  /\ isLoading' = FALSE
  /\ ev' = [NoEv EXCEPT !.op = "rejected"]
  /\ UNCHANGED <<now, store, view, currentTopic, audioVars, nreq, genCalls,
                 genStored>>

\* the audio button is rendered in the reading view once content is shown,
\* and is disabled while isAudioLoading
audioButtonEnabled ==
  view = "reading" /\ ~isLoading /\ content # Null /\ ~isAudioLoading

\* handlePlayAudio, from the click to the await of the generator call: a
\* click while playing stops the audio and returns
stillPlays(p) == FALSE
togglesOff(p) == p
handlePlayAudio ==
  /\ UNCHANGED <<swVars, decodeCall>>
  /\ audioButtonEnabled
  /\ content # Null
  /\ IF togglesOff(isPlaying)
     THEN /\ stopAudio
          /\ ev' = [NoEv EXCEPT !.op = "play"]
     ELSE /\ naudio < MaxAudio
          /\ isAudioLoading' = TRUE
          /\ naudio' = naudio + 1
          /\ audioInflight' = audioInflight \cup
                                {[id |-> naudio + 1, stopped |-> FALSE]}
          /\ ev' = [NoEv EXCEPT !.op = "play", !.src = naudio + 1]
          /\ UNCHANGED <<isPlaying, audioContextRef, audioSourceRef,
                         openContexts, playing, endedQueue, natural>>
  /\ UNCHANGED <<devVars, nreq, genCalls, genStored, shown>>

\* the audio generator call of request a resolved with inlineData.data =
\* payload: without data nothing happens; with data a context is created
\* and held, the payload is decoded and a source is started and held; an
\* exception on the way goes to the catch block (the error notice); finally
\* clears isAudioLoading
audioResolved(a, payload) ==
  /\ UNCHANGED <<swVars, decodeCall>>
  /\ a \in audioInflight
  /\ payload \in AudioPayloads
  /\ audioInflight' = audioInflight \ {a}
  /\ IF ~hasAudio(payload)
     THEN /\ ev' = [NoEv EXCEPT !.op = "audio", !.src = a.id,
                                !.text = "no data"]
          /\ UNCHANGED <<isPlaying, audioContextRef, audioSourceRef,
                         openContexts, playing>>
     ELSE LET audioBytes == base64ToUint8Array(payload)
              audioBuffer == decodeAudioData(audioBytes.len, NumChannels)
              threw == audioBytes.threw \/ audioBuffer.threw
          IN /\ openContexts' = openContexts \cup {a.id}
             /\ audioContextRef' = a.id
             /\ playing' = IF threw THEN playing ELSE playing \cup {a.id}
             /\ audioSourceRef' = IF threw THEN audioSourceRef ELSE a.id
             /\ isPlaying' = IF threw THEN isPlaying ELSE TRUE
             /\ ev' = [NoEv EXCEPT !.op = "audio", !.src = a.id,
                                   !.text = IF threw THEN "threw"
                                            ELSE "started",
                                   !.alert = threw]
  /\ isAudioLoading' = FALSE
  /\ UNCHANGED <<devVars, endedQueue, naudio, natural, nreq, genCalls,
                 genStored, shown>>

\* the audio generator call of request a rejected: the error notice,
\* finally clears isAudioLoading
audioRejected(a) ==
  /\ UNCHANGED <<swVars, decodeCall>>
  /\ a \in audioInflight
  /\ audioInflight' = audioInflight \ {a}
  /\ isAudioLoading' = FALSE
  /\ ev' = [NoEv EXCEPT !.op = "audio", !.src = a.id, !.text = "rejected",
                        !.alert = TRUE]
  /\ UNCHANGED <<devVars, isPlaying, audioContextRef, audioSourceRef,
                 openContexts, playing, endedQueue, naudio, natural, nreq,
                 genCalls, genStored, shown>>

\* a playing source reaches the end of its buffer: its ended event is
\* queued
sourceEnds(s) ==
  /\ UNCHANGED <<swVars, decodeCall>>
  /\ s \in playing
  /\ playing' = playing \ {s}
  /\ endedQueue' = endedQueue \cup {s}
  /\ natural' = natural \cup {s}
  /\ ev' = NoEv
  /\ UNCHANGED <<devVars, isAudioLoading, isPlaying, audioContextRef,
                 audioSourceRef, openContexts, audioInflight, naudio, nreq,
                 genCalls, genStored, shown>>

\* source.onended of source s: setIsPlaying(false), then stopAudio
onended(s) ==
  /\ UNCHANGED <<swVars, decodeCall>>
  /\ s \in endedQueue
  /\ stopAudioWith(endedQueue \ {s})
  /\ ev' = [NoEv EXCEPT !.op = "onended", !.src = s]
  /\ UNCHANGED <<devVars, nreq, genCalls, genStored, shown>>

\* the back button of the reading view
backFromReading ==
  /\ UNCHANGED <<swVars, decodeCall>>
  /\ view = "reading"
  /\ stopAudio
  /\ view' = "home"
  /\ ev' = [NoEv EXCEPT !.op = "stop",
                        !.error = stopAudioResult(audioState).raised]
  /\ UNCHANGED <<now, store, content, isLoading, currentTopic, inflight,
                 nreq, genCalls, genStored, shown>>

\* the buttons of the home and topics views that only navigate
navigate(to) ==
  /\ UNCHANGED <<swVars, decodeCall>>
  /\ \/ view = "home" /\ to = "topics"
     \/ view = "topics" /\ to = "home"
  /\ view' = to
  /\ ev' = NoEv
  /\ UNCHANGED <<now, store, content, isLoading, currentTopic, inflight,
                 audioVars, nreq, genCalls, genStored, shown>>

\* time passes; local midnight falls between two ticks whose calendar days
\* differ
Tick ==
  /\ UNCHANGED <<swVars, decodeCall>>
  /\ now < MaxNow
  /\ now' = now + 1
  /\ ev' = NoEv
  /\ UNCHANGED <<store, view, content, isLoading, currentTopic, inflight,
                 audioVars, nreq, genCalls, genStored, shown>>

Next ==
  \/ \E topic \in Topics \cup {Null} : generateDevotional(topic)
  \/ \E r \in inflight, text \in GenTexts : generateResolved(r, text)
  \/ \E r \in inflight : generateRejected(r)
  \/ backFromReading
  \/ \E to \in {"home", "topics"} : navigate(to)
  \/ Tick

Spec == Init /\ [][Next]_vars

\* The same program used one request at a time: a content request is made
\* only when no generator call is awaited.
NextSeq ==
  \/ inflight = {} /\ \E topic \in Topics \cup {Null} : generateDevotional(topic)
  \/ \E r \in inflight, text \in GenTexts : generateResolved(r, text)
  \/ \E r \in inflight : generateRejected(r)
  \/ backFromReading
  \/ \E to \in {"home", "topics"} : navigate(to)
  \/ Tick

SpecSeq == Init /\ [][NextSeq]_vars

\* The program with its audio button.  The clock is left out: no audio
\* operation reads it.  Content requests are counted by a bound of their
\* own.
NextAudio ==
  \/ nreq < MaxAudioReq /\ \E topic \in Topics \cup {Null} : generateDevotional(topic)
  \/ \E r \in inflight, text \in GenTexts : generateResolved(r, text)
  \/ \E r \in inflight : generateRejected(r)
  \/ backFromReading
  \/ \E to \in {"home", "topics"} : navigate(to)
  \/ handlePlayAudio
  \/ \E a \in audioInflight, payload \in AudioPayloads :
       audioResolved(a, payload)
  \/ \E a \in audioInflight : audioRejected(a)
  \/ \E s \in playing : sourceEnds(s)
  \/ \E s \in endedQueue : onended(s)

SpecAudio == Init /\ [][NextAudio]_vars

\* ---- service worker: install ------------------------------------------
\* A cache storage left by earlier deployments: any of the generations may
\* exist, an earlier version's with the application shell and a module, the
\* current name (a deployment that did not change the literal) with a
\* module.
OldEntries == [EmptyCache EXCEPT !["/"] = "r0",
                                 !["https://esm.sh/react"] = "r0"]
KeptEntries == [EmptyCache EXCEPT !["https://esm.sh/react"] = "r0"]

InitSW ==
  /\ InitApp
  /\ store[0] = Absent
  /\ swState = "parsed"
  /\ cacheNames \in SUBSET CacheNames
  /\ entries = [n \in CacheNames |->
                  IF n \notin cacheNames THEN EmptyCache
                  ELSE IF n = CACHE_NAME THEN KeptEntries ELSE OldEntries]
  /\ toDelete = {}
  /\ netInflight = {}
  /\ answers = [i \in 1 .. MaxFetch |-> Pending]
  /\ nfetch = 0
  /\ deletedNames = {}
  /\ decodeCall = NoDecodeCall

appVars == <<devVars, audioVars, nreq, genCalls, genStored, shown,
            decodeCall>>

\* cache.addAll resolves when every request got a response that is ok
addAllAlwaysOk(outcome) == outcome \in [PRECACHE_URLS -> ManifestOutcomes]
addAllOk(outcome) == \A u \in PRECACHE_URLS : outcome[u] \in NetResponses

\* the install event: skipWaiting(), and caches.open(CACHE_NAME) resolved
\* (open creates the generation when it does not exist)
install ==
  /\ swState = "parsed"
  /\ swState' = "installing"
  /\ cacheNames' = cacheNames \cup {CACHE_NAME}
  /\ ev' = [NoEv EXCEPT !.op = "install"]
  /\ UNCHANGED <<entries, toDelete, netInflight, answers, nfetch,
                 deletedNames>>
  /\ UNCHANGED appVars

\* cache.addAll(PRECACHE_URLS) settled: it stores every response or, when
\* a request failed or a response is not ok, none, and rejects
installSettled(outcome) ==
  /\ swState = "installing"
  /\ LET ok == addAllOk(outcome)
         failed == {u \in PRECACHE_URLS : outcome[u] \notin NetResponses}
     IN /\ swState' = IF ok THEN "installed" ELSE "redundant"
        /\ entries' = IF ok
                       THEN [entries EXCEPT ![CACHE_NAME] =
                              [q \in Requests |->
                                IF q \in PRECACHE_URLS THEN outcome[q]
                                ELSE entries[CACHE_NAME][q]]]
                       ELSE entries
        /\ ev' = [NoEv EXCEPT !.op = "installed", !.error = ~ok,
                              !.src = Cardinality(failed)]
  /\ UNCHANGED <<cacheNames, toDelete, netInflight, answers, nfetch,
                 deletedNames>>
  /\ UNCHANGED appVars

\* ---- service worker: activate -----------------------------------------
\* the activate event, up to caches.keys() resolved and the delete calls
\* made by the map over the names
activate ==
  /\ swState = "installed"
  /\ swState' = "activating"
  /\ toDelete' = {cacheName \in cacheNames : notWhitelisted(cacheName)}
  /\ ev' = [NoEv EXCEPT !.op = "activate"]
  /\ UNCHANGED <<cacheNames, entries, netInflight, answers, nfetch,
                 deletedNames>>
  /\ UNCHANGED appVars

\* one caches.delete(cacheName) done
cachesDelete(cacheName) ==
  /\ swState = "activating"
  /\ cacheName \in toDelete
  /\ toDelete' = toDelete \ {cacheName}
  /\ cacheNames' = cacheNames \ {cacheName}
  /\ entries' = [entries EXCEPT ![cacheName] = EmptyCache]
  /\ deletedNames' = deletedNames \cup {cacheName}
  /\ ev' = [NoEv EXCEPT !.op = "delete"]
  /\ UNCHANGED <<swState, netInflight, answers, nfetch>>
  /\ UNCHANGED appVars

\* Promise.all resolved: the activate handler is complete
activated ==
  /\ swState = "activating"
  /\ toDelete = {}
  /\ swState' = "activated"
  /\ ev' = [NoEv EXCEPT !.op = "activated"]
  /\ UNCHANGED <<cacheNames, entries, toDelete, netInflight, answers,
                 nfetch, deletedNames>>
  /\ UNCHANGED appVars

\* ---- service worker: fetch --------------------------------------------
\* caches.match(request): the entry of some generation that has one
matchAny(request) ==
  LET found == {entries[n][request] : n \in cacheNames} \ {NoEntry}
  IN IF found = {} THEN {NoEntry} ELSE found

\* the fetch event up to the resolution of the cache lookup; the network
\* request it makes is left in netInflight
fetch(request) ==
  /\ swState = "activated"
  /\ nfetch < MaxFetch
  /\ nfetch' = nfetch + 1
  /\ IF allowListed(request)
     THEN LET response == entries[CACHE_NAME][request]
          IN /\ cacheNames' = cacheNames \cup {CACHE_NAME}
             /\ netInflight' = netInflight \cup
                  {[id |-> nfetch', request |-> request, swr |-> TRUE]}
             /\ answers' = [answers EXCEPT
                              ![nfetch'] = cachedOrFetch(response)]
             /\ ev' = [NoEv EXCEPT !.op = "fetch", !.text = request,
                                   !.src = nfetch']
     ELSE \E response \in matchAny(request) :
             /\ cacheNames' = cacheNames
             /\ netInflight' =
                  IF response # NoEntry THEN netInflight
                  ELSE netInflight \cup
                    {[id |-> nfetch', request |-> request, swr |-> FALSE]}
             /\ answers' = [answers EXCEPT
                  ![nfetch'] = IF response # NoEntry THEN response
                               ELSE Pending]
             /\ ev' = [NoEv EXCEPT !.op = "fetch", !.text = request,
                                   !.src = nfetch']
  /\ UNCHANGED <<swState, entries, toDelete, deletedNames>>
  /\ UNCHANGED appVars

\* fetch(event.request) resolved with networkResponse
fetchResolved(h, networkResponse) ==
  /\ h \in netInflight
  /\ netInflight' = netInflight \ {h}
  /\ entries' =
       IF h.swr
       THEN [entries EXCEPT ![CACHE_NAME][h.request] =
              putEntry(entries[CACHE_NAME][h.request], networkResponse)]
       ELSE entries
  /\ answers' = [answers EXCEPT
       ![h.id] = IF answers[h.id] = Pending THEN networkResponse
                 ELSE answers[h.id]]
  /\ ev' = [NoEv EXCEPT !.op = "net", !.text = networkResponse,
                        !.src = h.id]
  /\ UNCHANGED <<swState, cacheNames, toDelete, nfetch, deletedNames>>
  /\ UNCHANGED appVars

\* fetch(event.request) rejected
fetchRejected(h) ==
  /\ h \in netInflight
  /\ netInflight' = netInflight \ {h}
  /\ answers' = [answers EXCEPT
       ![h.id] = IF answers[h.id] = Pending THEN NetworkError
                 ELSE answers[h.id]]
  /\ ev' = [NoEv EXCEPT !.op = "net", !.error = TRUE, !.src = h.id]
  /\ UNCHANGED <<swState, cacheNames, entries, toDelete, nfetch,
                 deletedNames>>
  /\ UNCHANGED appVars

NextSW ==
  \/ install
  \/ \E outcome \in [PRECACHE_URLS -> ManifestOutcomes] :
       installSettled(outcome)
  \/ activate
  \/ \E cacheName \in CacheNames : cachesDelete(cacheName)
  \/ activated
  \/ \E request \in FetchRequests : fetch(request)
  \/ \E h \in netInflight, networkResponse \in NetResponses \cup {NotFound} :
       fetchResolved(h, networkResponse)
  \/ \E h \in netInflight : fetchRejected(h)

SpecSW == InitSW /\ [][NextSW]_vars

\* ---- decodeAudioData on its own ----------------------------------------
\* decodeAudioData called with a buffer of any length up to MaxBytes and
\* any channel count up to MaxChannels
InitDecode ==
  /\ InitApp
  /\ store[0] = Absent
  /\ InitWorker
  /\ \E n \in 0 .. MaxBytes, c \in 1 .. MaxChannels :
       decodeCall = [NoDecodeCall EXCEPT !.data = n, !.numChannels = c]

decode ==
  /\ ~decodeCall.done
  /\ LET buffer == decodeAudioData(decodeCall.data, decodeCall.numChannels)
     IN decodeCall' = [decodeCall EXCEPT !.done = TRUE,
                                        !.threw = buffer.threw,
                                        !.frames = buffer.frames]
  /\ UNCHANGED <<devVars, audioVars, histVars, swVars>>

NextDecode == decode

SpecDecode == InitDecode /\ [][NextDecode]_vars

TypeOK ==
  /\ now \in 0 .. MaxNow
  /\ store \in [Days -> {Absent, "", "{not json", "{A}", "{B}"}]
  /\ view \in {"home", "reading", "topics"}
  /\ content \in Contents
  /\ isLoading \in BOOLEAN
  /\ nreq \in 0 .. MaxReq
  /\ swState \in {"parsed", "installing", "installed", "redundant",
                  "activating", "activated"}
  /\ cacheNames \subseteq CacheNames
  /\ entries \in [CacheNames ->
                   [Requests -> {NoEntry, "r0", NotFound} \cup NetResponses]]
  /\ toDelete \subseteq CacheNames
  /\ \A h \in netInflight : h.id \in 1 .. nfetch
  /\ nfetch \in 0 .. MaxFetch
  /\ decodeCall.data \in 0 .. MaxBytes
  /\ decodeCall.numChannels \in 1 .. MaxChannels

\* ---- reading a step ----------------------------------------------------
\* the calendar day of the clock
Today == now \div TicksPerDay
\* an entry that is there and holds a record
Usable(s) == s \notin {Absent, Null, "", "{not json", "[object Object]"}
RecordOf(s) == IF s \in {"{A}", " {A} "} THEN "A"
               ELSE IF s = "{B}" THEN "B" ELSE Fallback
\* a content request was issued in this step
StartStep == nreq' = nreq + 1
DailyStart == StartStep /\ currentTopic' = DailyLabel
TopicStart == StartStep /\ currentTopic' \in Topics
\* the generator calls this step made
Started == inflight' \ inflight
\* a generator call settled in this step and its request ran to its end
DoneStep == inflight' # inflight /\ inflight' \subseteq inflight
DoneReq == CHOOSE r \in inflight \ inflight' : TRUE
\* the daily generator calls awaited for dayKey d
AwaitedDaily(d) == {r \in inflight : r.topic = Null /\ r.key = d}
ShownContents(d) == {p[2] : p \in shown[d]}
ServedContents(d) == {p[2] : p \in {q \in shown[d] : q[1] = "served"}}

\* ---- C1 ----------------------------------------------------------------
\* C1 as stated: daily requests made one after another for one dayKey call
\* the generator at most once in total and all end up showing the same
\* content.
C1_AtMostOneCall ==
  \A d \in Days : genCalls[d] <= 1 /\ Cardinality(ShownContents(d)) <= 1

\* C1 as amended: daily requests made one after another for one dayKey have
\* at most one generation stored (a request whose generation failed stores
\* nothing, and the next request calls the generator again), and all
\* requests served from the store or from the stored generation show the
\* same content.
C1_AtMostOneStoredGeneration ==
  \A d \in Days : genStored[d] <= 1 /\ Cardinality(ServedContents(d)) <= 1

\* a failed daily request, a second one that generated B and stored it, and
\* a third one just served from the store
C1_Witness ==
  /\ nreq = 3 /\ now = 0 /\ inflight = {} /\ ev.op = "none"
  /\ view = "reading" /\ currentTopic = DailyLabel
  /\ genCalls[0] = 2 /\ genStored[0] = 1
  /\ store[0] = "{B}" /\ content = "B"
  /\ shown[0] = {<<"failed", Fallback>>, <<"served", "B">>}

\* ---- C2 ----------------------------------------------------------------
\* C2: no two generator calls of daily requests for the same dayKey are
\* ever awaited at the same time.
C2_NoOverlappingDailyCalls ==
  \A d \in Days : Cardinality(AwaitedDaily(d)) <= 1

\* ---- C3 ----------------------------------------------------------------
\* C3: a daily request that finds a parseable entry under today's dayKey
\* shows that record and returns: no generator call, no write to the store,
\* the loading flag untouched.
C3_HitServedWithoutCall ==
  [][(DailyStart /\ Usable(store[Today]))
       => /\ content' = RecordOf(store[Today])
          /\ Started = {}
          /\ genCalls' = genCalls
          /\ store' = store
          /\ isLoading' = isLoading]_vars

\* the second daily request of the day was just served the record the first
\* one generated
C3_Witness ==
  /\ nreq = 2 /\ now = 0 /\ inflight = {} /\ ev.op = "none"
  /\ view = "reading" /\ currentTopic = DailyLabel
  /\ genCalls[0] = 1 /\ store[0] = "{B}" /\ content = "B"

\* ---- C4 ----------------------------------------------------------------
\* C4: a daily request reads the entry of the calendar day it is made on and
\* no other: it is served from the store exactly when today's entry holds a
\* record, whatever the other days hold, and the generator call it makes
\* otherwise carries today's dayKey.
C4_ReadsOnlyItsOwnDay ==
  [][DailyStart
       => IF Usable(store[Today])
          THEN Started = {} /\ content' = RecordOf(store[Today])
          ELSE /\ content' = content
               /\ Cardinality(Started) = 1
               /\ \A r \in Started : r.key = Today /\ r.topic = Null]_vars

\* a request made on day 1 is awaiting the generator although day 0 holds a
\* record
C4_Witness ==
  /\ Today = 1 /\ Usable(store[0]) /\ ~Usable(store[1])
  /\ \E r \in inflight : r.id = nreq /\ r.topic = Null /\ r.key = 1
  /\ content # RecordOf(store[0])

\* ---- C5 ----------------------------------------------------------------
\* C5: every topic request calls the generator, whatever the store holds and
\* whatever was requested before, and neither its start nor its completion
\* changes the store.
C5_TopicAlwaysCalls ==
  [][/\ TopicStart => /\ Cardinality(Started) = 1
                      /\ \A r \in Started : r.topic \in Topics
                      /\ store' = store
                      /\ content' = content
     /\ (DoneStep /\ DoneReq.topic \in Topics) => store' = store]_vars

\* a topic request is awaiting the generator right after the same topic was
\* generated, while today's daily entry is stored
C5_Witness ==
  /\ nreq = 3 /\ Usable(store[Today]) /\ content = "B"
  /\ Cardinality(inflight) = 1
  /\ \E r \in inflight : r.id = 3 /\ r.topic \in Topics
  /\ genCalls[Today] = 1 /\ store[Today] = "{A}"

\* ---- C6 ----------------------------------------------------------------
\* C6: after the handler of a rejected generator call the shown content is
\* the fallback record, the loading flag is cleared and no exception left
\* the handler.
C6_RejectedShowsFallback ==
  ev.op = "rejected" => content = Fallback /\ ~isLoading /\ ~ev.error

\* the only request so far, a topic request, was rejected
C6_Witness ==
  /\ ev.op = "rejected" /\ nreq = 1 /\ currentTopic \in Topics
  /\ content = Fallback /\ inflight = {}

\* ---- C7 ----------------------------------------------------------------
\* C7: after the handler of a generator call that resolved with an empty
\* response text the shown content is the fallback record.
C7_EmptyResponseShowsFallback ==
  (ev.op = "resolved" /\ ev.text = "") => content = Fallback

\* ---- C8 ----------------------------------------------------------------
\* C8: the store changes only in two ways: a daily generation that returned
\* a record stores that record, and a daily lookup discards an entry that
\* does not parse.  A failed generation and every step of a topic request
\* leave the store as it was, and the fallback record is never stored.
C8_StoreWrittenOnlyOnDailySuccess ==
  [][/\ store' # store
          => \/ /\ DoneStep /\ DoneReq.topic = Null
                /\ ev'.op = "resolved" /\ Usable(ev'.text)
                /\ \E d \in Days :
                     store' = [store EXCEPT
                                 ![d] = JSONstringify(RecordOf(ev'.text))]
             \/ /\ DailyStart /\ ~Usable(store[Today])
                /\ store' = [store EXCEPT ![Today] = Absent]
     /\ \A d \in Days : store'[d] # JSONstringify(Fallback)]_vars

\* a daily generation just failed on unparseable text: the fallback is
\* shown and the store is still empty
C8_Witness ==
  /\ ev.op = "resolved" /\ ev.text = "{not json" /\ content = Fallback
  /\ nreq = 1 /\ currentTopic = DailyLabel
  /\ \A d \in Days : store[d] = Absent

\* ---- C9 ----------------------------------------------------------------
\* C9: a daily request that finds an entry that does not parse under today's
\* dayKey removes it and calls the generator, and when that call returns a
\* record the store holds the record under the dayKey the request looked
\* up.
C9_CorruptEntryReplaced ==
  [][/\ (DailyStart /\ Truthy(store[Today]) /\ ~Usable(store[Today]))
          => store'[Today] = Absent /\ Cardinality(Started) = 1
     /\ (/\ DoneStep /\ DoneReq.topic = Null
         /\ Truthy(DoneReq.cachedData) /\ ~Usable(DoneReq.cachedData)
         /\ ev'.op = "resolved" /\ Usable(ev'.text))
          => store'[DoneReq.key] = JSONstringify(RecordOf(ev'.text))]_vars

\* ---- C10 ---------------------------------------------------------------
\* C10: an entry that holds a record is never changed.
C10_StoredRecordNeverChanges ==
  [][\A d \in Days : Usable(store[d]) => store'[d] = store[d]]_vars

\* ---- C11 ---------------------------------------------------------------
\* C11: at most one AudioContext is created and not closed at any time.
C11_AtMostOneLiveContext == Cardinality(openContexts) <= 1

\* ---- C12 ---------------------------------------------------------------
\* C12: when the generator call of a play request settles after stopAudio
\* ran while it was awaited, the result is discarded: no context is
\* created, no source is started or held, and isPlaying is not set.
C12_LateResultDiscarded ==
  [][\A a \in audioInflight :
       (a.stopped /\ ev'.op = "audio" /\ ev'.src = a.id)
         => /\ openContexts' = openContexts
            /\ playing' = playing
            /\ audioSourceRef' = audioSourceRef
            /\ isPlaying' = isPlaying]_vars

\* ---- C13 ---------------------------------------------------------------
\* C13: at most one audio generator call is awaited at any time.
C13_NoOverlappingLoading == Cardinality(audioInflight) <= 1

\* ---- C14 ---------------------------------------------------------------
\* C14: a click on the audio button while isPlaying makes no generator call
\* and ends idle: both flags false, both refs released, the held source
\* silenced and the held context closed.
C14_ToggleStopsWithoutCall ==
  [][(ev'.op = "play" /\ isPlaying)
       => /\ naudio' = naudio
          /\ {a.id : a \in audioInflight'} = {a.id : a \in audioInflight}
          /\ ~isPlaying' /\ ~isAudioLoading'
          /\ audioSourceRef' = NoNode /\ audioContextRef' = NoNode
          /\ audioSourceRef \notin playing'
          /\ audioContextRef \notin openContexts']_vars

\* the one audio request played and a click on the button just stopped it
C14_Witness ==
  /\ ev.op = "play" /\ ev.src = 0
  /\ naudio = 1 /\ audioInflight = {}
  /\ ~isPlaying /\ ~isAudioLoading /\ openContexts = {} /\ playing = {}
  /\ natural = {}

\* ---- C15 ---------------------------------------------------------------
\* C15: stopAudio, called by the back button in whatever audio state, raises
\* nothing and leaves both refs released, the held source silenced, the held
\* context closed and both flags false; stopAudio applied to the state it
\* left changes nothing.
C15_StopTotalAndIdempotent ==
  [][ev'.op = "stop"
       => /\ ~ev'.error
          /\ audioSourceRef' = NoNode /\ audioContextRef' = NoNode
          /\ audioSourceRef \notin playing'
          /\ audioContextRef \notin openContexts'
          /\ ~isPlaying' /\ ~isAudioLoading'
          /\ stopAudioResult(audioState') = audioState']_vars

\* the back button just stopped a session whose source had been started,
\* while a second play request was still loading
C15_Witness ==
  /\ ev.op = "stop" /\ naudio = 2
  /\ 1 \in endedQueue /\ 1 \notin openContexts
  /\ \E a \in audioInflight : a.id = 2 /\ a.stopped
  /\ audioSourceRef = NoNode /\ audioContextRef = NoNode
  /\ ~isPlaying /\ ~isAudioLoading

\* ---- C16 ---------------------------------------------------------------
\* C16: a play request that fails after loading began (the generator call
\* rejects, or decoding the payload throws) ends idle, with the error
\* notice shown and with no context of its own left open or held.
C16_FailureReleasesContext ==
  [][(ev'.op = "audio" /\ ev'.text \in {"rejected", "threw"})
       => /\ ev'.alert
          /\ ~isAudioLoading'
          /\ ev'.src \notin openContexts'
          /\ audioContextRef' # ev'.src]_vars

\* ---- C17 ---------------------------------------------------------------
\* C17: the completion callback of a source that played to its end leaves
\* the session torn down: both refs released, the context of that source
\* closed, both flags false.
C17_EndedTearsSessionDown ==
  [][(ev'.op = "onended" /\ ev'.src \in natural)
       => /\ audioSourceRef' = NoNode /\ audioContextRef' = NoNode
          /\ ev'.src \notin openContexts'
          /\ ~isPlaying' /\ ~isAudioLoading']_vars

\* ---- reading a step of the service worker ------------------------------
\* the third-party asset hosts of the fetch listener
AssetHosts == {"https://esm.sh", "https://cdn.tailwindcss.com",
               "https://fonts.googleapis.com", "https://fonts.gstatic.com"}
ToAssetHost(request) == originOf(request) \in AssetHosts
Module == "https://esm.sh/react"

FetchStep == nfetch' = nfetch + 1
NetRequested == netInflight' \ netInflight   \* network requests of a step
NetSettled == netInflight \ netInflight'
NetSuccess == ev'.op = "net" /\ ~ev'.error

\* ---- C18 ---------------------------------------------------------------
\* C18: every step of the activate handler leaves the generation named by
\* CACHE_NAME present with the entries it had, and when the handler
\* completes no generation of another name exists.
C18_ActivateKeepsOnlyCurrent ==
  [][(/\ swState \in {"installed", "activating"}
      /\ swState' \in {"activating", "activated"})
       => /\ CACHE_NAME \in cacheNames'
          /\ entries'[CACHE_NAME] = entries[CACHE_NAME]
          /\ (swState' = "activated" => cacheNames' = {CACHE_NAME})]_vars

\* activation completed after deleting both earlier generations, the
\* current one still holding the manifest and the module it had before
C18_Witness ==
  /\ swState = "activated"
  /\ nfetch = 0
  /\ deletedNames = OldNames
  /\ cacheNames = {CACHE_NAME}
  /\ entries[CACHE_NAME]["/"] = "r1"
  /\ entries[CACHE_NAME][Module] = "r0"

\* ---- C19 ---------------------------------------------------------------
\* C19: a fetch event for a request to an asset host that has an entry in
\* the current generation is answered with that entry in the step of the
\* event, before its network request settles, and makes exactly one
\* network request; when a network request for such a request succeeds
\* the entry of the request becomes the network response, which is what a
\* later fetch event of the request is answered with.
C19_CachedHitRevalidates ==
  [][/\ \A request \in Requests :
          (/\ FetchStep
           /\ ev'.text = request
           /\ ToAssetHost(request)
           /\ entries[CACHE_NAME][request] # NoEntry)
          => /\ answers'[nfetch'] = entries[CACHE_NAME][request]
             /\ netInflight \subseteq netInflight'
             /\ Cardinality(NetRequested) = 1
             /\ \A h \in NetRequested :
                  h.id = nfetch' /\ h.request = request
     /\ \A h \in NetSettled :
          (NetSuccess /\ ToAssetHost(h.request))
          => entries'[CACHE_NAME][h.request] = ev'.text
     /\ \A h \in netInflight' :
          Cardinality({g \in netInflight' : g.id = h.id}) = 1]_vars

\* the first event was answered with the entry left by an earlier
\* deployment, its revalidation stored r2, and the second event is
\* answered with r2 while its own network request is still awaited
C19_Witness ==
  /\ nfetch = 2
  /\ answers[1] = "r0"
  /\ answers[2] = "r2"
  /\ netInflight = {[id |-> 2, request |-> Module, swr |-> TRUE]}

\* ---- C20 ---------------------------------------------------------------
\* C20: a fetch event for a request to an asset host that has no entry in
\* the current generation is not answered before its network request
\* settles; when the request succeeds the event is answered with the
\* network response and the response is the entry of the request in the
\* current generation.
C20_MissAnsweredAndStored ==
  [][/\ \A request \in Requests :
          (/\ FetchStep
           /\ ev'.text = request
           /\ ToAssetHost(request)
           /\ entries[CACHE_NAME][request] = NoEntry)
          => /\ answers'[nfetch'] = Pending
             /\ NetRequested =
                  {[id |-> nfetch', request |-> request, swr |-> TRUE]}
     /\ \A h \in NetSettled :
          (NetSuccess /\ ToAssetHost(h.request) /\ answers[h.id] = Pending)
          => /\ answers'[h.id] = ev'.text
             /\ CACHE_NAME \in cacheNames'
             /\ entries'[CACHE_NAME][h.request] = ev'.text]_vars

\* the only fetch event, for the module, found no entry and was answered
\* by the network response, now the entry of the module
C20_Witness ==
  /\ nfetch = 1
  /\ netInflight = {}
  /\ ev.op = "net" /\ ~ev.error /\ ev.src = 1
  /\ answers[1] = "r1"
  /\ entries[CACHE_NAME][Module] = "r1"

\* ---- C21 ---------------------------------------------------------------
\* C21: when the network request of a fetch event to an asset host fails,
\* no generation and no entry changes; an event that was answered with the
\* cached entry keeps that answer: an event that finds an entry is
\* answered with it at once and an answer given is never replaced.
C21_FailedRevalidationKeepsEntry ==
  [][/\ \A h \in NetSettled :
          (ev'.op = "net" /\ ev'.error /\ ToAssetHost(h.request))
          => entries' = entries /\ cacheNames' = cacheNames
     /\ \A request \in Requests :
          (/\ FetchStep
           /\ ev'.text = request
           /\ ToAssetHost(request)
           /\ entries[CACHE_NAME][request] # NoEntry)
          => answers'[nfetch'] = entries[CACHE_NAME][request]
     /\ \A i \in 1 .. MaxFetch :
          answers[i] # Pending => answers'[i] = answers[i]]_vars

\* the only fetch event, for the module, was answered with the entry of an
\* earlier deployment; its network request has failed and the entry is
\* still there
C21_Witness ==
  /\ nfetch = 1
  /\ netInflight = {}
  /\ ev.op = "net" /\ ev.error /\ ev.src = 1
  /\ answers[1] = "r0"
  /\ entries[CACHE_NAME][Module] = "r0"

\* ---- C22 ---------------------------------------------------------------
\* C22: a fetch event for a request to an origin that is not an asset host
\* is answered with an entry of the request when a generation has one, and
\* makes no network request then; when no generation has one it makes one
\* network request, is answered with the network response, and no
\* generation and no entry changes.
C22_OtherOriginsCacheFirst ==
  [][/\ \A request \in Requests :
          (FetchStep /\ ev'.text = request /\ ~ToAssetHost(request))
          => /\ entries' = entries /\ cacheNames' = cacheNames
             /\ IF \E n \in cacheNames : entries[n][request] # NoEntry
                THEN /\ netInflight' = netInflight
                     /\ \E n \in cacheNames :
                          /\ entries[n][request] # NoEntry
                          /\ answers'[nfetch'] = entries[n][request]
                ELSE /\ answers'[nfetch'] = Pending
                     /\ netInflight \subseteq netInflight'
                     /\ Cardinality(NetRequested) = 1
     /\ \A h \in NetSettled :
          (NetSuccess /\ ~ToAssetHost(h.request))
          => /\ answers'[h.id] = ev'.text
             /\ entries' = entries /\ cacheNames' = cacheNames]_vars

\* ---- C23 ---------------------------------------------------------------
\* C23: when the requests of the manifest have settled and one of them
\* failed, the worker does not become installed and no entry of any
\* generation changes; when none failed the worker is installed and the
\* generation named by CACHE_NAME exists and holds a response of the
\* network for every manifest resource.
C23_InstallAllOrNothing ==
  [][(swState = "installing" /\ swState' # swState)
       => IF ev'.src > 0
          THEN swState' = "redundant" /\ entries' = entries
          ELSE /\ swState' = "installed"
               /\ CACHE_NAME \in cacheNames'
               /\ \A u \in PRECACHE_URLS :
                    entries'[CACHE_NAME][u] \in NetResponses]_vars

\* an install that failed with two of the three requests answered, the
\* generation opened for it holding no manifest resource
C23_WitnessFailed ==
  /\ swState = "redundant"
  /\ ev.op = "installed" /\ ev.src = 1
  /\ CACHE_NAME \in cacheNames
  /\ \A u \in PRECACHE_URLS : entries[CACHE_NAME][u] = NoEntry

\* ---- C25 ---------------------------------------------------------------
\* C25: when the generator call of a daily request resolves with a usable
\* record, the record is stored under the dayKey the request looked up,
\* whatever the clock says by then, and the entry of no other day changes.
C25_StoredUnderLookupKey ==
  [][(/\ DoneStep
      /\ DoneReq.topic = Null
      /\ ev'.op = "resolved"
      /\ Usable(ev'.text))
       => /\ Usable(store'[DoneReq.key])
          /\ RecordOf(store'[DoneReq.key]) = RecordOf(ev'.text)
          /\ \A d \in Days \ {DoneReq.key} : store'[d] = store[d]]_vars

\* ---- C26 ---------------------------------------------------------------
\* C26: the loading flag is false only when no generator call is awaited,
\* and the request whose completion leaves no call awaited changes the
\* shown content only if it is the request issued last, the one the topic
\* label belongs to.
C26_LastRequestWins ==
  [][/\ ~isLoading' => inflight' = {}
     /\ (DoneStep /\ inflight' = {} /\ content' # content)
          => DoneReq.id = nreq]_vars

\* ---- C27 ---------------------------------------------------------------
\* C27: the ended callback of a source that is not the one of the session
\* now playing leaves that session as it is: its source and its context
\* stay held and open and isPlaying stays true.
C27_StaleEndedLeavesSession ==
  [][(/\ ev'.op = "onended"
      /\ isPlaying
      /\ audioSourceRef # NoNode
      /\ ev'.src # audioSourceRef)
       => /\ audioSourceRef' = audioSourceRef
          /\ audioContextRef' = audioContextRef
          /\ openContexts' = openContexts
          /\ isPlaying']_vars

\* ---- C24 ---------------------------------------------------------------
\* C24: decodeAudioData called with numChannels = 2 on a buffer whose byte
\* length is odd or not a multiple of 4 throws and builds no buffer.
C24_MisalignedRejected ==
  (/\ decodeCall.done
   /\ decodeCall.numChannels = 2
   /\ (decodeCall.data % 2 # 0 \/ decodeCall.data % 4 # 0))
  => decodeCall.threw /\ decodeCall.frames = 0

====
